---- MODULE Spec2Model ----
(***************************************************************************)
(* Model of the automated data scientist's run loop                        *)
(* (automated_data_scientist.py), its code executor (execution.py) and its *)
(* analysis planner (analysis_planning.py).                                *)
(*                                                                         *)
(* One run is a sequential process; pc is its position.  Every call to a   *)
(* collaborator that can return or raise is one action.  Strings built     *)
(* with f-strings are modelled as tuples <<prefix, argument>>; the captured *)
(* output of a code unit is a sequence of such lines.                      *)
(*                                                                         *)
(* Spec is the run.  SpecExec, SpecProcess, SpecLedger and SpecUpdate each *)
(* put one collaborator on its own: execute_code's return value, the       *)
(* figures, files and dataset that execute_code calls share, the findings  *)
(* with the summary built from them, and update_plan on any response.      *)
(***************************************************************************)
EXTENDS Naturals, Sequences, FiniteSets, TLC

VARIABLES
    pc,                     \* position of run() / execute_single_analysis()
    analysis_plan,          \* self.analysis_plan (the list the attribute is bound to)
    loop_plan,              \* the list object run()'s for loop iterates over
    aliased,                \* TRUE while self.analysis_plan is that same list object
    i,                      \* 1-based position of the for loop in loop_plan
    code,                   \* local `code` of execute_single_analysis
    attempt,                \* local `attempt` (0-based, as range(max_attempts))
    outcome,                \* locals result, output, figure_paths
    trace,                  \* calls made for the current step, with how each ended
    completed_analyses,     \* self.completed_analyses, as positions in loop_plan
    analysis_plan_version,  \* self.analysis_plan_version
    plan_file,              \* content of <output>/analysis_plan.json
    backup_files,           \* contents of the other plan files in the output directory
    unit_errors,            \* steps whose code unit raised in its last execute_code
    exhausted,              \* <<step, message>>: the step used up its attempts
    updates,                \* number of proposals update_plan has returned
    run_error,              \* the call whose exception run() re-raised, or "none"
    probe,                  \* a pair of code units and what execute_code returns for each
    fignums,                \* pyplot's open figures in number order, each as the call that opened it
    figure_dir,             \* the files figure_0.png, figure_1.png, ... of figure_dir
    production_data_sample, \* the DataFrame object the run hands to every execute_code
    step_figures,           \* the figure_paths execute_code returned, call by call
    running,                \* the code unit inside exec(): <<unit>>, or Idle
    capture,                \* what two _save_figures calls in a row did
    global_vars,            \* the dict execute_code built for its exec(), as the unit left it
    discarded,              \* the dict of the execute_code call before, no longer referenced
    returned,               \* what the last execute_code call returned, or NoReturn
    key_findings,           \* self.key_findings, each finding as its number of characters
    summary,                \* the last summarize_data call: characters built and returned
    plan_update,            \* one update_plan call: the plan before, the response, the plan after
    planner,                \* the plans generate_initial_plan / enhance_analysis_plan can return
    calls,                  \* calls counted: per step (reset with the locals) and per run
    cells,                  \* NotebookManager: self.notebook.cells
    notebook_file,          \* the cells in the file save_notebook wrote, or NoFile
    notebook_ops,           \* the NotebookManager calls made, each with the cells before it
    api_pc,                 \* position of one APIClient.call_api call
    tries,                  \* how each try of that call ended at the provider, in order
    api_outcome             \* what the call returned or raised, or NoError

locals == <<code, attempt, outcome, trace>>
files == <<plan_file, backup_files>>
history == <<unit_errors, exhausted, updates>>
process == <<fignums, figure_dir, production_data_sample, step_figures, running, capture,
             global_vars, discarded, returned>>
ledger == <<key_findings, summary>>
notebook == <<cells, notebook_file, notebook_ops>>
api == <<api_pc, tries, api_outcome>>
aside == <<probe, process, ledger, plan_update, planner, notebook, api>>
run_vars == <<analysis_plan, loop_plan, aliased, i, locals, completed_analyses,
              analysis_plan_version, files, history, run_error, planner, calls>>

vars == <<pc, analysis_plan, loop_plan, aliased, i, locals, completed_analyses,
          analysis_plan_version, files, history, run_error, calls, aside>>

----------------------------------------------------------------------------
(* Bounds of the model                                                     *)

MaxPlanLen == 2         \* longest plan initialize_data_and_plan returns
MaxProposalLen == 1     \* longest step list a plan-update response carries
MaxFigures == 2         \* most figures one code unit opens
MaxCalls == 3           \* most execute_code calls made on one process
MaxFindingLines == 2    \* most lines in one extract_key_findings response
MaxFindings == 3        \* most findings key_findings holds
MaxSummarySteps == 1    \* longest list handed to summarize_data
MaxReplyLen == 1        \* longest "analysis_steps" list of a parsed response
MaxNotebookOps == 2     \* most NotebookManager calls on one notebook

(* Program constants                                                       *)

max_attempts == 3
MAX_ANALYSES == 3
max_length == 1000000   \* summarize_data
FindingChars == 200     \* finding[:200], interpretation[:200]
PlanHeaderChars == 22   \* "Current Plan Summary:\n"
StepLineChars == 14     \* "- ", " (Status: ", ")\n"
CompletedHeaderChars == 29  \* "\nCompleted Analyses Summary:\n"
AnalysisLineChars == 8  \* "- ", ": ", "...\n"
FindingsHeaderChars == 15   \* "\nKey Findings:\n"
FindingLineChars == 6   \* "- ", "...\n"
MarkerChars == 14       \* "...(truncated)"
DefaultLevel == 2       \* add_markdown_cell(content, level=2)
max_tries == 5          \* backoff.on_exception(..., max_tries=5)

----------------------------------------------------------------------------
(* Values                                                                  *)

None == "None"
NoError == "none"
Msgs == {"E1", "E2"}                \* str(e) of the exceptions that occur
PlanNames == <<"A", "B", "C", "E">> \* names of the steps of the first plan, in order
Statuses == {"pending", "completed"}
Absent == "<absent>"                \* a key the parsed object does not have

Line(prefix, arg) == <<prefix, arg>>

\* a step as the Generator returns it: no result/output/figure_paths/interpretation keys
NewStep(name, status) ==
    [name |-> name, status |-> status, stored |-> FALSE, result |-> None,
     output |-> <<>>, figure_paths |-> <<>>, interpretation |-> "absent"]

RECURSIVE SeqsUpTo(_, _)
SeqsUpTo(S, n) ==
    IF n = 0 THEN {<<>>}
    ELSE LET shorter == SeqsUpTo(S, n - 1)
         IN  shorter \cup {Append(s, x) : s \in {t \in shorter : Len(t) = n - 1}, x \in S}

\* the plans initialize_data_and_plan can produce: 1..MaxPlanLen steps
InitialPlans ==
    {[k \in 1..Len(st) |-> NewStep(PlanNames[k], st[k])] :
        st \in {s \in SeqsUpTo(Statuses, MaxPlanLen) : Len(s) >= 1}}

\* plans at the edges: the one-step plan with and without a 'status' key
\* (test_run_method's plan has none), and the plans one step longer than
\* MAX_ANALYSES
LongStatuses ==
    {<<"completed", "completed", "completed", "pending">>,
     <<"pending", "completed", "completed", "pending">>,
     <<"completed", "pending", "completed", "pending">>,
     <<"pending", "pending", "pending", "pending">>}

EdgePlans ==
    {<<NewStep(PlanNames[1], st)>> : st \in {"pending", Absent}} \cup
    {[k \in 1..Len(st) |-> NewStep(PlanNames[k], st[k])] : st \in LongStatuses}

\* the calls counted: generate_code, interpret_results and add_analysis_step
\* for the current step, generate_final_report and save_notebook for the run
NoCalls == [generate_code |-> 0, interpret_results |-> 0, add_analysis_step |-> 0,
            generate_final_report |-> 0, save_notebook |-> 0]

\* run(): `if i >= config.MAX_ANALYSES` with i counted from 0
ReachedLimit_OneLate(pos) == pos - 1 > MAX_ANALYSES
ReachedLimit(pos) == pos - 1 >= MAX_ANALYSES

\* the steps of a plan-update response: a name the first plan has and one it
\* lacks, freshly parsed from JSON, status "pending" as the prompt asks
ProposalNames == {"A", "D"}
ProposalSteps == {NewStep(n, "pending") : n \in ProposalNames}
Proposals == SeqsUpTo(ProposalSteps, MaxProposalLen)

\* a code unit: what it prints, whether it binds `result`, and the error it
\* raises.  The units here open no matplotlib figure, so review_and_refine's
\* _save_figures finds none and figure_paths stays empty.
CodeUnit(prints, assigns, raises) ==
    [prints |-> prints, assigns |-> assigns, raises |-> raises]

ErrLine(m) == Line("Error during code execution: ", m)

\* code units returned by generate_code / refine_code in a run: one that binds
\* `result`, one that does not, and one per error raised before binding it
GeneratedUnits ==
    {CodeUnit(<<>>, a, NoError) : a \in BOOLEAN} \cup
    {CodeUnit(<<>>, FALSE, m) : m \in Msgs}

\* code units handed to execute_code directly
ProbeUnits ==
    {CodeUnit(p, a, r) : p \in {<<>>} \cup {<<ErrLine(m)>> : m \in Msgs},
                         a \in BOOLEAN, r \in Msgs \cup {NoError}}

NoCode == CodeUnit(<<>>, FALSE, NoError)
NoOutcome == [result |-> None, output |-> <<>>, figure_paths |-> <<>>]

----------------------------------------------------------------------------
(* CodeExecutor.execute_code                                               *)

\* What execute_code returns for a code unit.  The unit runs inside
\* _prepare_code's try block; when it raises, the except block prints the
\* error line into the captured output and the exception ends in
\* execute_code's own `except Exception`, which sets result = None.  The
\* tuple returned is (result, output, figure_paths) in both cases.
execute_code(unit) ==
    IF unit.raises = NoError
    THEN [result |-> IF unit.assigns THEN "R" ELSE None,
          output |-> unit.prints,
          figure_paths |-> <<>>]
    ELSE [result |-> None,
          output |-> Append(unit.prints, ErrLine(unit.raises)),
          figure_paths |-> <<>>]

----------------------------------------------------------------------------
(* AutomatedDataScientist.execute_single_analysis: the retry loop          *)

\* `if attempt < max_attempts - 1` of the except branch
ShouldRefine_NoSecond(att) == att < max_attempts - 2
ShouldRefine(att) == att < max_attempts - 1

\* `result, output, figure_paths = None, f"Execution failed: {str(e)}", []`
ExhaustedOutcome_NoText(e) ==
    [result |-> None, output |-> <<Line("Execution failed: ", "")>>, figure_paths |-> <<>>]
ExhaustedOutcome(e) ==
    [result |-> None, output |-> <<Line("Execution failed: ", e)>>, figure_paths |-> <<>>]

\* `self.completed_analyses.append(analysis)`: whatever the status of the step
AppendStep_OnlyCompleted(done, k, step) ==
    IF step.status = "completed" THEN Append(done, k) ELSE done
AppendStep_Twice(done, k, step) == Append(Append(done, k), k)
AppendStep(done, k, step) == Append(done, k)

\* one entry of the call record kept for the current step
Call(name, msg, raised) ==
    [call |-> name, error_message |-> msg, raised |-> raised]

\* ResultInterpreter.interpret_results: with no figure path it returns the
\* fixed error text without calling the API
interpret_results(figure_paths) ==
    IF Len(figure_paths) = 0
    THEN "Error: No figure paths provided for image analysis."
    ELSE "Error in interpretation"

\* json.loads(json.dumps(tasks, default=str)): a result that is not a JSON
\* value is written as its str() text, the other fields as they are
JsonResult(r) == IF r = None THEN "null" ELSE "str(R)"
SerializeStep(s) == [s EXCEPT !.result = JsonResult(@)]
Serialize(tasks) == [k \in 1..Len(tasks) |-> SerializeStep(tasks[k])]

NameSet(plan) == {plan[k].name : k \in 1..Len(plan)}

----------------------------------------------------------------------------
(* CodeExecutor and the state of the process it runs in                    *)

\* a code unit by what it does to the process: the figures it opens with
\* pyplot, whether it changes `df` in place, whether it raises at its end,
\* and whether it returns at all
EffectUnit(opens, changes_df, raises, returns) ==
    [opens |-> opens, changes_df |-> changes_df, raises |-> raises, returns |-> returns,
     assigns |-> FALSE]

\* the same unit with `result = ...` as a statement before its end
Assigning(unit) == [unit EXCEPT !.assigns = TRUE]

EffectUnits ==
    LET silent == {EffectUnit(n, c, r, TRUE) : n \in 0..MaxFigures, c \in BOOLEAN, r \in BOOLEAN}
        plain == {u \in silent : ~u.changes_df /\ u.opens <= 1}
    IN  silent \cup {Assigning(u) : u \in plain} \cup {EffectUnit(0, FALSE, FALSE, FALSE)}

Idle == <<>>
OriginalData == "original"
ChangedData == "changed in place"

\* str(self.figure_dir / f"figure_{i}.png")
FigurePath(n) == <<"figure_", n, ".png">>

\* a file of figure_dir: the figure saved in it and the call that saved it
FigureFile(figure, call) == [figure |-> figure, saved_by |-> call]

\* plt.figure() called n times during call number `call`
OpenFigures(surface, n, call) == surface \o [k \in 1..n |-> call]

\* CodeExecutor._save_figures(figure_paths) during call number `call`: for
\* i, fig in enumerate(plt.get_fignums()) it saves fig as figure_<i>.png,
\* appends the path, and closes fig.  `written` lists the paths of the
\* savefig calls; the return value has one metadata entry per figure.
_save_figures_KeepOpen(surface, dir, figure_paths, call) ==
    [fignums |-> surface,
     figure_dir |-> [k \in 1..(IF Len(dir) > Len(surface) THEN Len(dir) ELSE Len(surface)) |->
                        IF k <= Len(surface) THEN FigureFile(surface[k], call) ELSE dir[k]],
     figure_paths |-> figure_paths \o [k \in 1..Len(surface) |-> FigurePath(k - 1)],
     written |-> [k \in 1..Len(surface) |-> FigurePath(k - 1)],
     metadata |-> Len(surface)]
_save_figures(surface, dir, figure_paths, call) ==
    [fignums |-> <<>>,
     figure_dir |-> [k \in 1..(IF Len(dir) > Len(surface) THEN Len(dir) ELSE Len(surface)) |->
                        IF k <= Len(surface) THEN FigureFile(surface[k], call) ELSE dir[k]],
     figure_paths |-> figure_paths \o [k \in 1..Len(surface) |-> FigurePath(k - 1)],
     written |-> [k \in 1..Len(surface) |-> FigurePath(k - 1)],
     metadata |-> Len(surface)]

\* the value a unit binds to `result` during call number `call`
ResultOf(call) == "result of call " \o ToString(call)
Unbound == "<unbound>"

\* CodeExecutor._prepare_global_namespace(data, figure_paths): a dict literal,
\* so a new object on every call, holding the handles, 'df': data and
\* 'figure_paths': figure_paths and no 'result'.  `previous` is the dict of
\* the call before, which the new one takes nothing from.
_prepare_global_namespace_Reuse(previous, data, figure_paths) ==
    [previous EXCEPT !.df = data]
_prepare_global_namespace(previous, data, figure_paths) ==
    [df |-> data, figure_paths |-> figure_paths, result |-> Unbound]

\* global_vars.get('result', None)
GetResult(namespace) == IF namespace.result = Unbound THEN None ELSE namespace.result

NoNamespace == [df |-> OriginalData, figure_paths |-> <<>>, result |-> Unbound]
NoReturn == <<>>

NoCapture == [ran |-> FALSE, before |-> 0, first |-> _save_figures(<<>>, <<>>, <<>>, 0),
              again |-> _save_figures(<<>>, <<>>, <<>>, 0)]

----------------------------------------------------------------------------
(* Key findings and the summary handed to the Generator; a string is       *)
(* modelled as its number of characters                                    *)

RECURSIVE Sum(_)
Sum(seq) == IF Len(seq) = 0 THEN 0 ELSE seq[1] + Sum(Tail(seq))

\* len(s[:n])
Cut(chars, n) == IF chars > n THEN n ELSE chars

\* a line of the findings response after strip(): whether it starts with '-'
\* and how long it is
FindingLine(dash, chars) == [dash |-> dash, chars |-> chars]
FindingLines == {FindingLine(d, c) : d \in BOOLEAN, c \in {1, 202, 502}}
FindingResponses == SeqsUpTo(FindingLines, MaxFindingLines)

\* ResultInterpreter.extract_key_findings: [finding.strip()[2:] for finding
\* in findings.split('\n') if finding.strip().startswith('-')]
extract_key_findings(lines) ==
    LET dashed == SelectSeq(lines, LAMBDA l : l.dash)
    IN  [k \in 1..Len(dashed) |-> IF dashed[k].chars > 2 THEN dashed[k].chars - 2 ELSE 0]

\* a step as summarize_data reads it: the lengths of its name, its status
\* ("pending", "completed") and its interpretation
SummaryStep(name, status, interpretation) ==
    [name |-> name, status |-> status, interpretation |-> interpretation]
SummarySteps ==
    {SummaryStep(n, st, t) : n \in {1, max_length}, st \in {7, 9},
                             t \in {51, 300}}
SummaryLists == SeqsUpTo(SummarySteps, MaxSummarySteps)

\* the characters summarize_data builds before its length test
SummaryContent(current_plan, completed, findings) ==
    PlanHeaderChars
      + Sum([k \in 1..Len(current_plan) |->
                current_plan[k].name + current_plan[k].status + StepLineChars])
      + CompletedHeaderChars
      + Sum([k \in 1..Len(completed) |->
                completed[k].name + Cut(completed[k].interpretation, FindingChars)
                    + AnalysisLineChars])
      + FindingsHeaderChars
      + Sum([k \in 1..Len(findings) |-> Cut(findings[k], FindingChars) + FindingLineChars])

\* AnalysisPlanner.summarize_data: len of the string returned;
\* `if len(summary) > max_length: summary = summary[:max_length] + "...(truncated)"`
summarize_data(current_plan, completed, findings) ==
    LET content == SummaryContent(current_plan, completed, findings)
    IN  IF content > max_length THEN Cut(content, max_length) + MarkerChars ELSE content

NoSummary == [ran |-> FALSE, content |-> 0, chars |-> 0]

----------------------------------------------------------------------------
(* AnalysisPlanner.update_plan on a response of any shape                  *)

\* a parsed JSON value: a list with its items, or a value of another type
JsonList(items) == [type |-> "list", items |-> items]
JsonOther(type) == [type |-> type, items |-> <<>>]

\* the items of an "analysis_steps" list: step records, records without a
\* name or without a status, and items that are no record at all
ReplyItems ==
    {NewStep(n, "pending") : n \in ProposalNames}
        \cup {NewStep(Absent, "pending"), NewStep("D", Absent), NewStep(Absent, Absent)}

ReplyValues ==
    {JsonList(items) : items \in SeqsUpTo(ReplyItems, MaxReplyLen)}
        \cup {JsonOther("string"), JsonOther("null")}

\* the text call_api returns: whether json.loads accepts it, the type of the
\* value parsed, and the value under "analysis_steps" when there is one
PlanResponse(parses, type, has_steps, analysis_steps) ==
    [parses |-> parses, type |-> type, has_steps |-> has_steps,
     analysis_steps |-> analysis_steps]

PlanResponses ==
    {PlanResponse(FALSE, Absent, FALSE, JsonOther("null"))}
        \cup {PlanResponse(TRUE, t, FALSE, JsonOther("null")) : t \in {"list", "string", "object"}}
        \cup {PlanResponse(TRUE, "object", TRUE, v) : v \in ReplyValues}

\* update_plan from the response on: parse_json_response raises on text that
\* is no JSON, .get raises on a value that is no dict, and otherwise the
\* value under "analysis_steps" is returned, current_plan when the key is
\* missing
update_plan(current_plan, response) ==
    IF ~response.parses
    THEN [raised |-> "JSONDecodeError", plan |-> current_plan]
    ELSE IF response.type # "object"
         THEN [raised |-> "AttributeError", plan |-> current_plan]
         ELSE IF ~response.has_steps
              THEN [raised |-> NoError, plan |-> current_plan]
              ELSE [raised |-> NoError, plan |-> response.analysis_steps]

NoPlanUpdate ==
    [ran |-> FALSE, current_plan |-> JsonList(<<>>),
     response |-> PlanResponse(FALSE, Absent, FALSE, JsonOther("null")),
     analysis_plan |-> JsonList(<<>>), propagated |-> NoError]

----------------------------------------------------------------------------
(* NotebookManager                                                         *)

Cell(cell_type, source) == [cell_type |-> cell_type, source |-> source]

\* f"{header} {content}" with header = '#' * level
Heading(level, content) == <<[k \in 1..level |-> "#"], " ", content>>

\* add_markdown_cell(content, level): self.notebook.cells.append(cell)
add_markdown_cell_First(nb, content, level) ==
    <<Cell("markdown", Heading(level, content))>> \o nb
add_markdown_cell(nb, content, level) ==
    Append(nb, Cell("markdown", Heading(level, content)))

\* add_code_cell(code): the cell's source is the code
add_code_cell(nb, source) == Append(nb, Cell("code", source))

\* add_analysis_step(name, description, goals, code)
add_analysis_step_NoGoals(nb, name, description, goals, source) ==
    add_code_cell(
        add_markdown_cell(
            add_markdown_cell(
                add_markdown_cell(
                    add_markdown_cell(nb, name, 2),
                    "Description:", 3),
                description, DefaultLevel),
            goals, DefaultLevel),
        source)
add_analysis_step(nb, name, description, goals, source) ==
    add_code_cell(
        add_markdown_cell(
            add_markdown_cell(
                add_markdown_cell(
                    add_markdown_cell(
                        add_markdown_cell(nb, name, 2),
                        "Description:", 3),
                    description, DefaultLevel),
                "Goals:", 3),
            goals, DefaultLevel),
        source)

\* NotebookManager.__init__: new_notebook() and _initialize_notebook's cell
FreshNotebook == add_markdown_cell(<<>>, "# Automated Data Scientist Analysis", 1)

NoFile == <<"no file">>
Texts == {"x", "y"}                 \* contents, names, descriptions, goals, code

NotebookOp(op, args, before) == [op |-> op, args |-> args, before |-> before]

----------------------------------------------------------------------------
(* Initial state: the object after __init__, before run()                  *)

NoProbe == [a |-> NoCode, b |-> NoCode, ran |-> FALSE,
            ret_a |-> NoOutcome, ret_b |-> NoOutcome]

NoLocals ==
    /\ code = NoCode
    /\ attempt = 0
    /\ outcome = NoOutcome
    /\ trace = <<>>

\* APIClient.call_api under @backoff.on_exception(backoff.expo, (RateLimitError,
\* APIError, httpx.TimeoutException), max_tries=5)

Response == "response"

\* what a try can raise: the three classes named to backoff; BadRequestError,
\* which _call_openai_api catches first and re-raises and which is a subclass
\* of APIError; and exceptions of other classes (an AttributeError of
\* _preprocess_response, a rate-limit error of the Anthropic client)
Failures == {"RateLimitError", "APIError", "TimeoutException", "BadRequestError",
             "AttributeError", "anthropic.RateLimitError"}

BaseClass(e) == IF e \in {"BadRequestError", "RateLimitError"} THEN "APIError" ELSE "Exception"

\* the exception tuple handed to backoff.on_exception
on_exception == {"RateLimitError", "APIError", "TimeoutException"}

\* `except exception as e` of backoff's retry loop: isinstance(e, exception)
Caught(e) == e \in on_exception \/ BaseClass(e) \in on_exception

\* backoff's retry loop after a caught exception: max_tries_exceeded =
\* (tries == max_tries), and then the exception is raised again
GiveUp_OneMore(n) == n > max_tries
GiveUp(n) == n >= max_tries

Fresh ==
    /\ analysis_plan = <<>>
    /\ loop_plan = <<>>
    /\ aliased = TRUE
    /\ i = 1
    /\ NoLocals
    /\ completed_analyses = <<>>
    /\ analysis_plan_version = 0
    /\ plan_file = [exists |-> FALSE, tasks |-> <<>>]
    /\ backup_files = {}
    /\ unit_errors = {}
    /\ exhausted = {}
    /\ updates = 0
    /\ run_error = "none"
    /\ calls = NoCalls
    /\ cells = FreshNotebook
    /\ notebook_file = NoFile
    /\ notebook_ops = <<>>
    /\ api_pc = "idle"
    /\ tries = <<>>
    /\ api_outcome = NoError
    /\ fignums = <<>>
    /\ figure_dir = <<>>
    /\ production_data_sample = OriginalData
    /\ step_figures = <<>>
    /\ running = Idle
    /\ capture = NoCapture
    /\ global_vars = NoNamespace
    /\ discarded = NoNamespace
    /\ returned = NoReturn
    /\ key_findings = <<>>
    /\ summary = NoSummary

Init ==
    /\ Fresh
    /\ pc = "start"
    /\ probe = NoProbe
    /\ plan_update = NoPlanUpdate
    /\ planner = InitialPlans

\* run() re-raises an exception of the named call
Raise_Absorbed(by) ==
    /\ pc' = "report"
    /\ run_error' = by
Raise(by) ==
    /\ pc' = "raised"
    /\ run_error' = by

----------------------------------------------------------------------------
(* AutomatedDataScientist.run and execute_single_analysis                  *)

\* an in-place change of the dict of step k: seen through every list holding it
SetStep(k, step) ==
    /\ loop_plan' = [loop_plan EXCEPT ![k] = step]
    /\ analysis_plan' = IF aliased THEN [loop_plan EXCEPT ![k] = step] ELSE analysis_plan

\* run(): initialize_data_and_plan; the for loop then iterates over the list
\* self.analysis_plan is bound to at this point
InitializeDataAndPlan ==
    /\ pc = "start"
    /\ \/ /\ \E plan \in planner :
                /\ analysis_plan' = plan
                /\ loop_plan' = plan
          /\ pc' = "loop"
          /\ UNCHANGED run_error
       \/ /\ Raise("initialize_data_and_plan")
          /\ UNCHANGED <<analysis_plan, loop_plan>>
    /\ UNCHANGED <<aliased, i, locals, completed_analyses, analysis_plan_version,
                   files, history, calls, aside>>

\* `for i, analysis in enumerate(self.analysis_plan)`: the attribute is read
\* once, when the loop starts, and the iterator holds that list object; the
\* list self.analysis_plan is bound to at a later turn plays no part
Iterated_Attribute(at_start, bound_now) == bound_now
Iterated(at_start, bound_now) == at_start

\* run(): one turn of `for i, analysis in enumerate(self.analysis_plan)`
LoopStep ==
    /\ pc = "loop"
    /\ IF i > Len(Iterated(loop_plan, analysis_plan)) \/ ReachedLimit(i)
       THEN pc' = "report" /\ i' = i /\ UNCHANGED run_error
       ELSE IF Iterated(loop_plan, analysis_plan)[i].status = Absent
            THEN Raise("analysis['status']") /\ i' = i
            ELSE IF Iterated(loop_plan, analysis_plan)[i].status = "completed"
                 THEN pc' = "loop" /\ i' = i + 1 /\ UNCHANGED run_error
                 ELSE pc' = "generate" /\ i' = i /\ UNCHANGED run_error
    /\ UNCHANGED <<analysis_plan, loop_plan, aliased, locals, completed_analyses,
                   analysis_plan_version, files, history, calls, aside>>

\* execute_single_analysis: generate_code returns a code unit or raises
GenerateCode ==
    /\ pc = "generate"
    /\ calls' = [calls EXCEPT !.generate_code = @ + 1]
    /\ \/ /\ \E u \in GeneratedUnits : code' = u
          /\ pc' = "execute"
          /\ UNCHANGED run_error
       \/ /\ Raise("generate_code")
          /\ UNCHANGED code
    /\ UNCHANGED <<analysis_plan, loop_plan, aliased, i, attempt, outcome, trace,
                   completed_analyses, analysis_plan_version, files, history, aside>>

\* the end of one turn of `for attempt in range(max_attempts)` that did not break
NextAttempt ==
    IF attempt + 1 < max_attempts
    THEN attempt' = attempt + 1 /\ pc' = "execute"
    ELSE attempt' = attempt /\ pc' = "interpret"

\* execute_single_analysis: one execution attempt.  execute_code runs the unit
\* and then appends to the notebook file (save_to_notebook); it returns its
\* tuple, or the write raises e.  A return marks the step completed and breaks;
\* an exception takes the except branch.
ExecuteCode ==
    /\ pc = "execute"
    /\ unit_errors' = IF code.raises # NoError THEN unit_errors \cup {i}
                                               ELSE unit_errors \ {i}
    /\ \E e \in Msgs \cup {NoError} :
          /\ trace' = Append(trace, Call("execute_code", NoError, e))
          /\ IF e = NoError
             THEN /\ outcome' = execute_code(code)
                  /\ SetStep(i, [loop_plan[i] EXCEPT !.status = "completed"])
                  /\ pc' = "interpret"
                  /\ UNCHANGED <<attempt, exhausted>>
             ELSE /\ UNCHANGED <<analysis_plan, loop_plan>>
                  /\ IF ShouldRefine(attempt)
                     THEN /\ pc' = "refine"
                          /\ UNCHANGED <<outcome, attempt, exhausted>>
                     ELSE /\ outcome' = ExhaustedOutcome(e)
                          /\ exhausted' = exhausted \cup {<<i, e>>}
                          /\ NextAttempt
    /\ UNCHANGED <<aliased, i, code, completed_analyses, analysis_plan_version,
                   files, updates, run_error, calls, aside>>

\* except branch: refine_code(code, error_message=str(e), ...) returns the
\* replacement code unit or raises
RefineCode ==
    /\ pc = "refine"
    /\ \/ /\ \E u \in GeneratedUnits : code' = u
          /\ trace' = Append(trace, Call("refine_code", trace[Len(trace)].raised, NoError))
          /\ NextAttempt
          /\ UNCHANGED run_error
       \/ /\ Raise("refine_code")
          /\ UNCHANGED <<code, trace, attempt>>
    /\ UNCHANGED <<analysis_plan, loop_plan, aliased, i, outcome,
                   completed_analyses, analysis_plan_version, files, history, calls, aside>>

\* interpret_results, then the outcome is written into the step's dict and the
\* dict is appended to completed_analyses.  extract_key_findings catches its
\* own exceptions and add_analysis_step only appends cells: neither can raise.
InterpretAndStore ==
    /\ pc = "interpret"
    /\ SetStep(i, [loop_plan[i] EXCEPT
                       !.stored = TRUE,
                       !.result = outcome.result,
                       !.output = outcome.output,
                       !.figure_paths = outcome.figure_paths,
                       !.interpretation = interpret_results(outcome.figure_paths)])
    /\ completed_analyses' = AppendStep(completed_analyses, i, loop_plan[i])
    /\ calls' = [calls EXCEPT !.interpret_results = @ + 1, !.add_analysis_step = @ + 1]
    /\ pc' = "save_plan"
    /\ UNCHANGED <<aliased, i, locals, analysis_plan_version, files, history,
                   run_error, aside>>

\* AnalysisPlanner.save_plan_to_file(self.analysis_plan): open(plan_file, 'w')
\* and json.dump, nothing else; an OSError of open leaves the file as it was
\* and nothing catches it before run()
SavePlanToFile ==
    /\ pc = "save_plan"
    /\ \/ /\ plan_file' = [exists |-> TRUE, tasks |-> Serialize(analysis_plan)]
          /\ pc' = "update"
          /\ UNCHANGED run_error
       \/ /\ Raise("save_plan_to_file")
          /\ UNCHANGED plan_file
    /\ UNCHANGED <<analysis_plan, loop_plan, aliased, i, locals, completed_analyses,
                   analysis_plan_version, backup_files, history, calls, aside>>

\* AnalysisPlanner.update_plan inside execute_single_analysis's try: the
\* response's "analysis_steps" list becomes self.analysis_plan (first
\* disjunct); a response without that key gives current_plan back, and an
\* exception (API, JSON) is logged and the plan kept (second disjunct).  execute_single_analysis then returns, its
\* locals are gone, and the for loop moves on.
UpdatePlan ==
    /\ pc = "update"
    /\ \/ \E p \in Proposals :
             /\ analysis_plan' = p
             /\ aliased' = FALSE
             /\ updates' = updates + 1
       \/ UNCHANGED <<analysis_plan, aliased, updates>>
    /\ code' = NoCode
    /\ attempt' = 0
    /\ outcome' = NoOutcome
    /\ trace' = <<>>
    /\ calls' = [calls EXCEPT !.generate_code = 0, !.interpret_results = 0,
                              !.add_analysis_step = 0]
    /\ i' = i + 1
    /\ pc' = "loop"
    /\ UNCHANGED <<loop_plan, completed_analyses, analysis_plan_version, files,
                   unit_errors, exhausted, run_error, aside>>

\* run(): generate_final_report writes the report file
GenerateFinalReport ==
    /\ pc = "report"
    /\ calls' = [calls EXCEPT !.generate_final_report = @ + 1]
    /\ \/ pc' = "save_notebook" /\ UNCHANGED run_error
       \/ Raise("generate_final_report")
    /\ UNCHANGED <<analysis_plan, loop_plan, aliased, i, locals, completed_analyses,
                   analysis_plan_version, files, history, aside>>

\* run(): notebook_manager.save_notebook, the last call of run()
SaveNotebook ==
    /\ pc = "save_notebook"
    /\ calls' = [calls EXCEPT !.save_notebook = @ + 1]
    /\ \/ pc' = "done" /\ UNCHANGED run_error
       \/ Raise("save_notebook")
    /\ UNCHANGED <<analysis_plan, loop_plan, aliased, i, locals, completed_analyses,
                   analysis_plan_version, files, history, aside>>

Next ==
    \/ InitializeDataAndPlan
    \/ LoopStep
    \/ GenerateCode
    \/ ExecuteCode
    \/ RefineCode
    \/ InterpretAndStore
    \/ SavePlanToFile
    \/ UpdatePlan
    \/ GenerateFinalReport
    \/ SaveNotebook

Spec == Init /\ [][Next]_vars

----------------------------------------------------------------------------
(* execute_code on its own: two code units, each handed to execute_code    *)

ProbeInit ==
    /\ Fresh
    /\ pc = "probe"
    /\ plan_update = NoPlanUpdate
    /\ planner = InitialPlans
    /\ \E a \in ProbeUnits, b \in ProbeUnits :
          probe = [a |-> a, b |-> b, ran |-> FALSE,
                   ret_a |-> NoOutcome, ret_b |-> NoOutcome]

ProbeExecute ==
    /\ pc = "probe"
    /\ probe' = [probe EXCEPT !.ran = TRUE,
                              !.ret_a = execute_code(probe.a),
                              !.ret_b = execute_code(probe.b)]
    /\ pc' = "probed"
    /\ UNCHANGED <<analysis_plan, loop_plan, aliased, i, locals, completed_analyses,
                   analysis_plan_version, files, history, run_error, process, ledger, plan_update,
                   planner, calls, notebook, api>>

ProbeNext == ProbeExecute

\* the run on the plans at the edges
PlansInit ==
    /\ Fresh
    /\ pc = "start"
    /\ probe = NoProbe
    /\ plan_update = NoPlanUpdate
    /\ planner = EdgePlans

SpecPlans == PlansInit /\ [][Next]_vars

SpecExec == ProbeInit /\ [][ProbeNext]_vars

----------------------------------------------------------------------------
(* execute_code calls in a row on one process: the pyplot figures, the     *)
(* figure files and the DataFrame the calls share                          *)

ProcessInit ==
    /\ Fresh
    /\ pc = "calls"
    /\ probe = NoProbe
    /\ plan_update = NoPlanUpdate
    /\ planner = InitialPlans

\* execute_code(code, self.production_data_sample) up to exec(): figure_paths
\* = [], the namespace gets 'df': data (the caller's object), exec starts
StartCall ==
    /\ running = Idle
    /\ Len(step_figures) < MaxCalls
    /\ \E u \in EffectUnits : running' = <<u>>
    /\ capture' = NoCapture
    /\ global_vars' = _prepare_global_namespace(global_vars, production_data_sample, <<>>)
    /\ discarded' = global_vars
    /\ UNCHANGED <<pc, run_vars, probe, plan_update, notebook, api, ledger, fignums, figure_dir, production_data_sample,
                   step_figures, returned>>

\* exec() comes back, which only a unit that returns or raises lets it do.
\* The unit's figures are open and `df` is as the unit left it.  After a unit
\* that returned, review_and_refine runs _save_figures; after one that
\* raised, `except Exception` is entered and review_and_refine is skipped.
\* execute_code then returns (result, output, figure_paths).
ExecReturns ==
    /\ running # Idle
    /\ running[1].returns
    /\ LET call == Len(step_figures) + 1
           surface == OpenFigures(fignums, running[1].opens, call)
           bound == IF running[1].assigns
                    THEN [global_vars EXCEPT !.result = ResultOf(call)]
                    ELSE global_vars
           saved == _save_figures(surface, figure_dir, bound.figure_paths, call)
       IN  IF running[1].raises
           THEN /\ fignums' = surface
                /\ figure_dir' = figure_dir
                /\ step_figures' = Append(step_figures, bound.figure_paths)
                /\ global_vars' = bound
                /\ returned' = <<[call |-> call, assigned |-> running[1].assigns,
                                  raised |-> TRUE, result |-> None,
                                  figure_paths |-> bound.figure_paths, written |-> <<>>]>>
           ELSE /\ fignums' = saved.fignums
                /\ figure_dir' = saved.figure_dir
                /\ step_figures' = Append(step_figures, saved.figure_paths)
                /\ global_vars' = [bound EXCEPT !.figure_paths = saved.figure_paths]
                /\ returned' = <<[call |-> call, assigned |-> running[1].assigns,
                                  raised |-> FALSE, result |-> GetResult(bound),
                                  figure_paths |-> saved.figure_paths, written |-> saved.written]>>
    /\ production_data_sample' =
          IF running[1].changes_df THEN ChangedData ELSE production_data_sample
    /\ running' = Idle
    /\ UNCHANGED <<pc, run_vars, probe, plan_update, notebook, api, ledger, capture, discarded>>

\* _save_figures called twice in a row, between two execute_code calls
SaveFiguresTwice ==
    /\ running = Idle
    /\ LET first == _save_figures(fignums, figure_dir, <<>>, 0)
           again == _save_figures(first.fignums, first.figure_dir, <<>>, 0)
       IN  /\ capture' = [ran |-> TRUE, before |-> Len(fignums),
                          first |-> first, again |-> again]
           /\ fignums' = again.fignums
           /\ figure_dir' = again.figure_dir
    /\ UNCHANGED <<pc, run_vars, probe, plan_update, notebook, api, ledger, production_data_sample, step_figures, running,
                   global_vars, discarded, returned>>

ProcessNext ==
    \/ StartCall
    \/ ExecReturns
    \/ SaveFiguresTwice

SpecProcess == ProcessInit /\ [][ProcessNext]_vars

----------------------------------------------------------------------------
(* The findings ledger: extract_key_findings after each step, and          *)
(* summarize_data on what has been gathered                                *)

LedgerInit ==
    /\ Fresh
    /\ pc = "ledger"
    /\ probe = NoProbe
    /\ plan_update = NoPlanUpdate
    /\ planner = InitialPlans

\* self.key_findings.extend(extract_key_findings(interpretation)); when
\* call_api raises, extract_key_findings returns []
ExtractKeyFindings ==
    /\ \E lines \in FindingResponses :
          /\ Len(key_findings) + Len(extract_key_findings(lines)) <= MaxFindings
          /\ key_findings' = key_findings \o extract_key_findings(lines)
    /\ UNCHANGED <<pc, run_vars, probe, plan_update, notebook, api, process, summary>>

\* summarize_data(current_plan, completed_analyses, key_findings)
SummarizeData ==
    /\ \E current_plan \in SummaryLists, completed \in SummaryLists :
          summary' = [ran |-> TRUE,
                      content |-> SummaryContent(current_plan, completed, key_findings),
                      chars |-> summarize_data(current_plan, completed, key_findings)]
    /\ UNCHANGED <<pc, run_vars, probe, plan_update, notebook, api, process, key_findings>>

LedgerNext ==
    \/ ExtractKeyFindings
    \/ SummarizeData

SpecLedger == LedgerInit /\ [][LedgerNext]_vars

----------------------------------------------------------------------------
(* update_plan on its own: a plan and a response, handed to update_plan    *)
(* the way execute_single_analysis does                                    *)

UpdateInit ==
    /\ Fresh
    /\ pc = "update_plan"
    /\ probe = NoProbe
    /\ planner = InitialPlans
    /\ \E plan \in InitialPlans, response \in PlanResponses :
          plan_update = [NoPlanUpdate EXCEPT !.current_plan = JsonList(plan),
                                             !.response = response,
                                             !.analysis_plan = JsonList(plan)]

\* try: self.analysis_plan = update_plan(self.analysis_plan, ...)
\* except Exception: log, "Continuing with the current plan...": whatever
\* update_plan raised, nothing is propagated
UpdatePlanCall ==
    /\ pc = "update_plan"
    /\ LET ret == update_plan(plan_update.current_plan, plan_update.response)
       IN  plan_update' = [plan_update EXCEPT
                              !.ran = TRUE,
                              !.analysis_plan = IF ret.raised = NoError THEN ret.plan ELSE @,
                              !.propagated = NoError]
    /\ pc' = "updated"
    /\ UNCHANGED <<run_vars, probe, process, ledger, notebook, api>>

UpdateNext == UpdatePlanCall

SpecUpdate == UpdateInit /\ [][UpdateNext]_vars

----------------------------------------------------------------------------
(* NotebookManager on its own: calls of its methods on a fresh notebook    *)

NotebookInit ==
    /\ Fresh
    /\ pc = "notebook"
    /\ probe = NoProbe
    /\ plan_update = NoPlanUpdate
    /\ planner = InitialPlans

NotebookFrame ==
    UNCHANGED <<pc, run_vars, probe, plan_update, process, ledger, api>>

AddMarkdownCell ==
    /\ Len(notebook_ops) < MaxNotebookOps
    /\ \E content \in Texts, level \in {DefaultLevel, 3} :
          /\ cells' = add_markdown_cell(cells, content, level)
          /\ notebook_ops' = Append(notebook_ops,
                                    NotebookOp("add_markdown_cell", <<content, level>>, cells))
    /\ UNCHANGED notebook_file
    /\ NotebookFrame

AddCodeCell ==
    /\ Len(notebook_ops) < MaxNotebookOps
    /\ \E c \in Texts :
          /\ cells' = add_code_cell(cells, c)
          /\ notebook_ops' = Append(notebook_ops, NotebookOp("add_code_cell", <<c>>, cells))
    /\ UNCHANGED notebook_file
    /\ NotebookFrame

AddAnalysisStep ==
    /\ Len(notebook_ops) < MaxNotebookOps
    /\ \E name \in Texts, description \in Texts, goals \in Texts, c \in Texts :
          /\ cells' = add_analysis_step(cells, name, description, goals, c)
          /\ notebook_ops' = Append(notebook_ops,
                                    NotebookOp("add_analysis_step",
                                               <<name, description, goals, c>>, cells))
    /\ UNCHANGED notebook_file
    /\ NotebookFrame

\* save_notebook: nbformat.writes(self.notebook) serialises a copy, and the
\* text is written to notebook_path
NotebookSave ==
    /\ Len(notebook_ops) < MaxNotebookOps
    /\ notebook_file' = cells
    /\ notebook_ops' = Append(notebook_ops, NotebookOp("save_notebook", <<>>, cells))
    /\ UNCHANGED cells
    /\ NotebookFrame

NotebookNext ==
    \/ AddMarkdownCell
    \/ AddCodeCell
    \/ AddAnalysisStep
    \/ NotebookSave

SpecNotebook == NotebookInit /\ [][NotebookNext]_vars

----------------------------------------------------------------------------
(* One APIClient.call_api call and its tries at the provider               *)

ApiInit ==
    /\ Fresh
    /\ pc = "api"
    /\ probe = NoProbe
    /\ plan_update = NoPlanUpdate
    /\ planner = InitialPlans

ApiFrame ==
    UNCHANGED <<pc, run_vars, probe, plan_update, process, ledger, notebook>>

\* call_api(prompt, ...) is called: backoff's wrapper starts with tries = 0
CallApi ==
    /\ api_pc = "idle"
    /\ api_pc' = "trying"
    /\ UNCHANGED <<tries, api_outcome>>
    /\ ApiFrame

\* one turn of the wrapper's loop: call_api's body runs _call_openai_api or
\* _call_anthropic_api, which returns the response or re-raises what the
\* provider call raised.  A return ends the call; an exception that is not of
\* the classes given to backoff leaves the wrapper; one of these classes is
\* raised again when the tries are used up, and else the wrapper sleeps and
\* goes round again.
TryProvider ==
    /\ api_pc = "trying"
    /\ \E o \in {Response} \cup Failures :
          /\ tries' = Append(tries, o)
          /\ IF o = Response
             THEN api_pc' = "returned" /\ api_outcome' = o
             ELSE IF Caught(o) /\ ~GiveUp(Len(tries) + 1)
                  THEN api_pc' = "trying" /\ api_outcome' = api_outcome
                  ELSE api_pc' = "raised" /\ api_outcome' = o
    /\ ApiFrame

ApiNext ==
    \/ CallApi
    \/ TryProvider

SpecApi == ApiInit /\ [][ApiNext]_vars

----------------------------------------------------------------------------
(* The retry loop of execute_single_analysis                               *)

\* the calls of one collaborator made so far for the current step
Calls(name) == SelectSeq(trace, LAMBDA c : c.call = name)
CallNames == [k \in 1..Len(trace) |-> trace[k].call]
Executions == Calls("execute_code")

\* the for loop over the attempts is over and execute_single_analysis goes on
LoopOver == pc \in {"interpret", "save_plan", "update"}

FailsTwiceThenSucceeds ==
    /\ Len(Executions) >= 3
    /\ Executions[1].raised # NoError
    /\ Executions[2].raised # NoError
    /\ Executions[3].raised = NoError

EveryAttemptFailed ==
    /\ Len(Executions) >= 1
    /\ \A k \in 1..Len(Executions) : Executions[k].raised # NoError

\* C1: when execute_code raises on attempts 1 and 2 of a step and returns on
\* attempt 3, the calls made for the step are exactly execute_code,
\* refine_code, execute_code, refine_code, execute_code (three executions, two
\* refinements, one after each failed attempt and before the next one), each
\* refinement is given the message of the failure before it, and the step's
\* status is "completed".
C1_RetryTwiceThenCompleted ==
    FailsTwiceThenSucceeds =>
        /\ CallNames = <<"execute_code", "refine_code", "execute_code",
                         "refine_code", "execute_code">>
        /\ trace[2].error_message = trace[1].raised
        /\ trace[4].error_message = trace[3].raised
        /\ LoopOver \/ pc = "raised"
        /\ loop_plan[i].status = "completed"

C1_Witness ==
    /\ pc = "interpret"
    /\ FailsTwiceThenSucceeds
    /\ Len(Calls("refine_code")) = 2

\* C2: when every execution attempt of a step fails, execute_code is called at
\* most three times; with the third failure the loop is over without an
\* exception leaving it, and the outcome of the step is result None, no figure
\* path, and the output "Execution failed: " followed by the message of the
\* third attempt, unchanged.
C2_ExhaustedKeepsLastError ==
    /\ Len(Executions) <= max_attempts
    /\ (EveryAttemptFailed /\ Len(Executions) = max_attempts) =>
           /\ pc \notin {"execute", "refine"}
           /\ run_error \notin {"execute_code", "refine_code"}
    /\ (EveryAttemptFailed /\ LoopOver) =>
           /\ Len(Executions) = max_attempts
           /\ outcome.result = None
           /\ outcome.figure_paths = <<>>
           /\ outcome.output = <<Line("Execution failed: ", Executions[3].raised)>>
           /\ loop_plan[i].status = "pending"

C2_Witness ==
    /\ pc = "interpret"
    /\ EveryAttemptFailed
    /\ Len(Executions) = 3
    /\ Executions[3].raised # Executions[1].raised
    /\ Executions[3].raised # Executions[2].raised

\* C3: whenever the code unit of a step raises while execute_code runs it and
\* fewer than three attempts have been used, the Refiner is called and a
\* further attempt follows: the retry loop is not left after such an attempt,
\* and the attempt does not leave the step "completed".
C3_UnitErrorIsRetried ==
    (pc = "interpret" /\ i \in unit_errors) =>
        /\ attempt = max_attempts - 1
        /\ loop_plan[i].status # "completed"

----------------------------------------------------------------------------
(* execute_code's return value                                             *)

\* C4: execute_code never propagates a failure of the code unit and returns
\* result None for it, and what it returns tells the failed run of a code
\* unit from a successful one: the outcome returned for a unit that raised
\* differs from the outcome returned for any unit that did not.
C4_FailureShowsInOutcome ==
    probe.ran =>
        /\ probe.a.raises # NoError => probe.ret_a.result = None
        /\ (probe.a.raises # NoError /\ probe.b.raises = NoError) =>
               probe.ret_a # probe.ret_b

----------------------------------------------------------------------------
(* Step status, plan updates, persistence                                  *)

\* C5: after a run every step has status "pending" or "completed", and no
\* step whose code unit raised in its last execution attempt is "completed".
C5_CompletedHadNoError ==
    pc = "done" =>
        \A k \in 1..Len(loop_plan) :
            /\ loop_plan[k].status \in {"pending", "completed"}
            /\ loop_plan[k].status = "completed" => k \notin unit_errors

\* C6: a plan update is append-only: every step of the plan before the update
\* is a step of the plan after it, with all its fields unchanged.
C6_UpdateKeepsEveryStep ==
    [][pc = "update" =>
          \A k \in 1..Len(analysis_plan) :
              \E j \in 1..Len(analysis_plan') : analysis_plan'[j] = analysis_plan[k]]_vars

\* C7: the plan version counter equals its initial value (0) plus the number
\* of plan updates applied.
C7_VersionCountsUpdates == analysis_plan_version = updates

\* C8: when the plan file exists and a snapshot changes its content, the prior
\* content is kept in a backup file.
C8_PriorSnapshotBackedUp ==
    [][(plan_file.exists /\ plan_file' # plan_file) =>
          plan_file.tasks \in backup_files']_vars

\* C9: a failure to write the plan snapshot does not abort the run.
C9_SnapshotFailureAbsorbed == run_error # "save_plan_to_file"

\* C10: a run over a 1-step plan whose step fails on all three attempts, with
\* a Generator that proposes no step under a new name, ends with a plan of
\* exactly one step, status "pending", whose output holds the last failure
\* message.
C10_ExhaustedStepStaysInPlan ==
    \A m \in Msgs :
        (/\ pc = "done"
         /\ Len(loop_plan) = 1
         /\ <<1, m>> \in exhausted
         /\ NameSet(analysis_plan) \subseteq NameSet(loop_plan)) =>
            /\ Len(analysis_plan) = 1
            /\ analysis_plan[1].status = "pending"
            /\ \E n \in 1..Len(analysis_plan[1].output) :
                   analysis_plan[1].output[n][2] = m

----------------------------------------------------------------------------
(* Exhausted steps and the plan record                                     *)

\* step k is behind the point where execute_single_analysis stores the outcome
Stored(k) == k < i \/ (k = i /\ pc \notin {"generate", "execute", "refine", "interpret"})

Occurrences(k) == Cardinality({n \in 1..Len(completed_analyses) : completed_analyses[n] = k})

\* the for loop of run() has ended without an exception
AfterLoop == pc \in {"report", "save_notebook", "done"}

\* C11: a step that used up its three attempts is in completed_analyses
\* exactly once, with output "Execution failed: " and the error text, result
\* None and no figure path; the exhaustion raises nothing out of run(), and
\* when the loop has ended every step within MAX_ANALYSES is either marked
\* completed or has been executed and appended, the ones after an exhausted
\* step included.
C11_ExhaustedStepIsStored ==
    /\ \A k \in 1..Len(loop_plan), m \in Msgs :
          (<<k, m>> \in exhausted /\ Stored(k)) =>
              /\ Occurrences(k) = 1
              /\ loop_plan[k].output = <<Line("Execution failed: ", m)>>
              /\ loop_plan[k].result = None
              /\ loop_plan[k].figure_paths = <<>>
    /\ run_error \notin {"execute_code", "interpret_results"}
    /\ AfterLoop =>
          \A k \in 1..Len(loop_plan) :
              k <= MAX_ANALYSES =>
                  \/ loop_plan[k].status = "completed"
                  \/ Occurrences(k) = 1

C11_Witness ==
    /\ pc = "done"
    /\ Len(loop_plan) = 2
    /\ \E m \in Msgs : <<1, m>> \in exhausted
    /\ completed_analyses = <<1, 2>>
    /\ loop_plan[2].status = "completed"

\* C12: at the end of a run every step the run executed is in the in-memory
\* plan and in the plan file, under its name, with the status the run gave it
\* and, when it is not completed, the output that explains the failure.
InPlanRecord(step, plan) ==
    \E j \in 1..Len(plan) :
        /\ plan[j].name = step.name
        /\ plan[j].status = step.status
        /\ step.status # "completed" => plan[j].output = step.output

C12_NoStepDropped ==
    pc = "done" =>
        \A n \in 1..Len(completed_analyses) :
            /\ InPlanRecord(loop_plan[completed_analyses[n]], analysis_plan)
            /\ plan_file.exists
            /\ InPlanRecord(loop_plan[completed_analyses[n]], plan_file.tasks)

----------------------------------------------------------------------------
(* Figures, the dataset and the duration of a code unit                    *)

Range(seq) == {seq[k] : k \in 1..Len(seq)}

\* C13: _save_figures on a surface with N open figures appends N paths,
\* writes N files and leaves no figure open (for N = 0 it ends normally with
\* nothing appended); called again at once it appends no path.
C13_CaptureDrainsSurface ==
    capture.ran =>
        /\ Len(capture.first.figure_paths) = capture.before
        /\ capture.first.metadata = capture.before
        /\ Cardinality(Range(capture.first.written)) = capture.before
        /\ Len(capture.first.fignums) = 0
        /\ Len(capture.again.figure_paths) = 0
        /\ Len(capture.again.written) = 0

C13_Witness ==
    /\ capture.ran
    /\ capture.before = 2
    /\ Len(capture.first.figure_paths) = 2
    /\ fignums = <<>>

\* C14: at the start of every execute_code call no figure is open that an
\* earlier call opened, the calls whose code unit raised included.
C14_SurfaceClearAtStart == running # Idle => fignums = <<>>

\* C15: a figure file named in the figure_paths of one step is never
\* overwritten by the capture of a later step, and the figure_paths of two
\* different steps have no path in common.
FileOf(path) == figure_dir[path[2] + 1]

C15_FigureFilesNotReused ==
    \A s \in 1..Len(step_figures), t \in 1..Len(step_figures) :
        /\ \A path \in Range(step_figures[s]) : FileOf(path).saved_by <= s
        /\ s # t => Range(step_figures[s]) \cap Range(step_figures[t]) = {}

\* C19: the dataset the run holds is the same after every execute_code.
C19_DatasetUnchanged == production_data_sample = OriginalData

\* C20: a code unit inside exec() is ended after a bounded time: whenever a
\* unit is running, the call is able to come back.
C20_RunningUnitEnds == running # Idle => ENABLED ProcessNext

\* C25: the namespace of an execute_code call holds nothing an earlier call
\* bound: the result returned is None or the value the unit of this very call
\* assigned, a call whose unit assigns no result returns None, and the
\* figure_paths returned are the paths this call's capture appended.
C25_NamespaceFresh ==
    /\ running # Idle => global_vars.result = Unbound /\ global_vars.figure_paths = <<>>
    /\ returned # NoReturn =>
          /\ returned[1].result \in {None, ResultOf(returned[1].call)}
          /\ ~returned[1].assigned => returned[1].result = None
          /\ returned[1].figure_paths = returned[1].written

\* a call after one whose unit bound `result` and whose capture appended a
\* path: its own unit assigns nothing, returns normally, and it returns None
C25_Witness ==
    /\ returned # NoReturn
    /\ returned[1].call >= 2
    /\ running = Idle
    /\ discarded.result # Unbound
    /\ discarded.figure_paths # <<>>
    /\ ~returned[1].assigned
    /\ ~returned[1].raised
    /\ returned[1].result = None

----------------------------------------------------------------------------
(* Lengths of the findings and of the summary                              *)

\* C16: no finding stored in key_findings is longer than the per-finding
\* bound of 200 characters.
C16_StoredFindingsBounded ==
    \A k \in 1..Len(key_findings) : key_findings[k] <= FindingChars

\* C17: the summary summarize_data returns is never longer than max_length,
\* the marker of a truncated summary included.
C17_SummaryWithinBound == summary.ran => summary.chars <= max_length

----------------------------------------------------------------------------
(* Shape of a plan-update response                                         *)

StepRecord(item) == item.name # Absent /\ item.status # Absent

Malformed(response) ==
    \/ ~response.parses
    \/ response.type # "object"
    \/ ~response.has_steps
    \/ response.analysis_steps.type # "list"
    \/ \E k \in 1..Len(response.analysis_steps.items) :
           ~StepRecord(response.analysis_steps.items[k])

\* C18: after a plan-update response that does not parse, is no object, has
\* no list under "analysis_steps", or lists an item that is no record with a
\* name and a status, the plan in memory is the plan before the update and no
\* exception leaves the update.
C18_MalformedUpdateRejected ==
    (plan_update.ran /\ Malformed(plan_update.response)) =>
        /\ plan_update.analysis_plan = plan_update.current_plan
        /\ plan_update.propagated = NoError

----------------------------------------------------------------------------
(* Calls per step, order of the steps, the limit on their number           *)

\* the step's first execute_code returned and the step has been stored
SucceededFirstTime ==
    /\ pc \in {"save_plan", "update"}
    /\ Len(trace) = 1
    /\ trace[1].call = "execute_code"
    /\ trace[1].raised = NoError

\* C21: for a step that succeeds on its first attempt generate_code,
\* execute_code, interpret_results and add_analysis_step are each called
\* exactly once; a run over a one-step plan calls save_notebook exactly once,
\* after the step; and a step record without a 'status' key is processed like
\* any other step, raising nothing.
C21_EachCalledOnce ==
    /\ SucceededFirstTime =>
          /\ calls.generate_code = 1
          /\ Len(Executions) = 1
          /\ calls.interpret_results = 1
          /\ calls.add_analysis_step = 1
          /\ calls.save_notebook = 0
    /\ (pc = "done" /\ Len(loop_plan) = 1) => calls.save_notebook = 1
    /\ run_error # "analysis['status']"

\* a step is being worked on: code generated or about to be, attempts running
Working == pc \in {"generate", "execute", "refine", "interpret"}

\* C24: the steps are executed in plan order; no code is generated or
\* executed for a step that is "completed" when the loop reaches it; at most
\* MAX_ANALYSES steps are executed, and none at a plan index of MAX_ANALYSES
\* or more (counted from 0), whether or not earlier steps were skipped.
C24_OrderSkipLimit ==
    /\ \A m \in 1..Len(completed_analyses), n \in 1..Len(completed_analyses) :
          m < n => completed_analyses[m] < completed_analyses[n]
    /\ pc \in {"generate", "execute", "refine"} => loop_plan[i].status # "completed"
    /\ Len(completed_analyses) <= MAX_ANALYSES
    /\ \A n \in 1..Len(completed_analyses) : completed_analyses[n] - 1 < MAX_ANALYSES
    /\ Working => i - 1 < MAX_ANALYSES
    /\ \A k \in 1..Len(loop_plan) : k - 1 >= MAX_ANALYSES => ~loop_plan[k].stored

C24_Witness ==
    /\ pc = "done"
    /\ Len(loop_plan) = MAX_ANALYSES + 1
    /\ completed_analyses = <<2>>
    /\ loop_plan[1].status = "completed"
    /\ loop_plan[4].status = "pending"
    /\ ~loop_plan[4].stored

----------------------------------------------------------------------------
(* The cells of the notebook                                               *)

LastOp == notebook_ops[Len(notebook_ops)]

\* the cells before the last call are the first cells now, unchanged
KeepsCells == SubSeq(cells, 1, Len(LastOp.before)) = LastOp.before

\* cell number n counted from the end, as cells[-n]
FromEnd(n) == cells[Len(cells) + 1 - n]

OnlySteps == \A k \in 1..Len(notebook_ops) : notebook_ops[k].op = "add_analysis_step"

\* C22: add_analysis_step(name, description, goals, code) appends six cells
\* at the end, in this order: markdown with the name, markdown "Description:",
\* markdown with the description, markdown "Goals:", markdown with the goals,
\* and a code cell whose source is the code; n such calls on a fresh notebook
\* leave 1 + 6n cells.
C22_StepAppendsSixCells ==
    /\ (Len(notebook_ops) > 0 /\ LastOp.op = "add_analysis_step") =>
          /\ Len(cells) = Len(LastOp.before) + 6
          /\ KeepsCells
          /\ \A n \in 2..6 : FromEnd(n).cell_type = "markdown"
          /\ FromEnd(6).source[3] = LastOp.args[1]
          /\ FromEnd(5).source[3] = "Description:"
          /\ FromEnd(4).source[3] = LastOp.args[2]
          /\ FromEnd(3).source[3] = "Goals:"
          /\ FromEnd(2).source[3] = LastOp.args[3]
          /\ FromEnd(1) = Cell("code", LastOp.args[4])
    /\ OnlySteps => Len(cells) = 1 + 6 * Len(notebook_ops)

C22_Witness ==
    /\ Len(notebook_ops) = 2
    /\ OnlySteps
    /\ Len(cells) = 13
    /\ notebook_ops[1].args # notebook_ops[2].args

\* C23: add_markdown_cell and add_code_cell each add exactly one cell, at the
\* end: a markdown cell whose source, at the default level, is "## " and the
\* content, or a code cell whose source is the code; neither of them nor
\* save_notebook removes, reorders or changes a cell that was there.
C23_OneCellAtTheEnd ==
    Len(notebook_ops) > 0 =>
        /\ LastOp.op = "add_markdown_cell" =>
              /\ Len(cells) = Len(LastOp.before) + 1
              /\ KeepsCells
              /\ FromEnd(1).cell_type = "markdown"
              /\ LastOp.args[2] = DefaultLevel =>
                     FromEnd(1).source = <<<<"#", "#">>, " ", LastOp.args[1]>>
        /\ LastOp.op = "add_code_cell" =>
              /\ Len(cells) = Len(LastOp.before) + 1
              /\ KeepsCells
              /\ FromEnd(1) = Cell("code", LastOp.args[1])
        /\ LastOp.op = "save_notebook" =>
              /\ cells = LastOp.before
              /\ notebook_file = cells

C23_Witness ==
    /\ Len(notebook_ops) = 2
    /\ notebook_ops[1].op = "add_markdown_cell"
    /\ notebook_ops[1].args[2] = DefaultLevel
    /\ notebook_ops[2].op = "add_code_cell"
    /\ Len(cells) = 3

----------------------------------------------------------------------------
(* The order of effects of a step and the steps the loop reaches           *)

\* execute_single_analysis has returned for at least one step and the for
\* loop is between two steps
StepBoundary == pc = "loop" /\ completed_analyses # <<>>

\* C26: the plan update is applied before the snapshot is written, so at
\* every step boundary the plan file holds the in-memory plan.
C26_FileHoldsUpdatedPlan ==
    StepBoundary => plan_file.exists /\ plan_file.tasks = Serialize(analysis_plan)

\* C27: the loop goes over the list the plan was bound to when it started.
\* That list never takes a step of an update response; a step that is in the
\* plan through an update only is never worked on, stored or marked
\* completed; the loop works on positions of the first plan only, ends when
\* that list is used up (or the limit is reached), and executes no more steps
\* than the first plan has.
C27_LoopKeepsItsList ==
    /\ NameSet(loop_plan) \subseteq Range(PlanNames)
    /\ \A k \in 1..Len(analysis_plan) :
          analysis_plan[k].name \notin NameSet(loop_plan) =>
              ~analysis_plan[k].stored /\ analysis_plan[k].status = "pending"
    /\ Working => i <= Len(loop_plan)
    /\ AfterLoop => i > Len(loop_plan) \/ ReachedLimit(i)
    /\ Len(completed_analyses) <= Len(loop_plan)

\* a run that ended with a step D in the plan which came in by the update
\* after the first of two executed steps, and D was never executed
C27_Witness ==
    /\ pc = "done"
    /\ updates >= 2
    /\ Len(completed_analyses) = 2
    /\ Len(loop_plan) = 2
    /\ \E k \in 1..Len(analysis_plan) :
          /\ analysis_plan[k].name \notin NameSet(loop_plan)
          /\ ~analysis_plan[k].stored

\* C28: when generate_code or refine_code raises, run() ends with that error:
\* the step being processed is not in completed_analyses and has none of its
\* outcome fields written, no step after it is processed, no report is
\* generated, no notebook is saved, and nothing more happens in the run.
C28_GeneratorErrorEndsRun ==
    run_error \in {"generate_code", "refine_code"} =>
        /\ pc = "raised"
        /\ ~ENABLED Next
        /\ Occurrences(i) = 0
        /\ \A k \in i..Len(loop_plan) :
              /\ ~loop_plan[k].stored
              /\ loop_plan[k].result = None
              /\ loop_plan[k].output = <<>>
              /\ loop_plan[k].interpretation = "absent"
        /\ \A n \in 1..Len(completed_analyses) : completed_analyses[n] < i
        /\ calls.generate_final_report = 0
        /\ calls.save_notebook = 0

\* refine_code raised in the first of two pending steps
C28_Witness ==
    /\ run_error = "refine_code"
    /\ pc = "raised"
    /\ i = 1
    /\ Len(loop_plan) = 2
    /\ loop_plan[2].status = "pending"
    /\ completed_analyses = <<>>

\* the steps execute_single_analysis has run to its storing lines
Executed == {k \in 1..Len(loop_plan) : loop_plan[k].stored}

\* C29: a run that ends without an exception has generated the report once
\* and then saved the notebook once; the report is generated only when the
\* loop has ended, no step being in the middle of its processing; and from
\* then on completed_analyses holds every executed step exactly once, in the
\* order of execution.
C29_ReportOnceAfterTheSteps ==
    /\ pc = "done" => calls.generate_final_report = 1 /\ calls.save_notebook = 1
    /\ calls.generate_final_report <= 1
    /\ calls.save_notebook <= calls.generate_final_report
    /\ calls.generate_final_report = 1 => pc \in {"save_notebook", "done", "raised"}
    /\ pc \in {"report", "save_notebook", "done"} =>
          /\ code = NoCode /\ attempt = 0 /\ trace = <<>>
          /\ Range(completed_analyses) = Executed
          /\ Len(completed_analyses) = Cardinality(Executed)
          /\ \A m \in 1..Len(completed_analyses), n \in 1..Len(completed_analyses) :
                m < n => completed_analyses[m] < completed_analyses[n]

\* a run of two executed steps that ended without an exception
C29_Witness ==
    /\ pc = "done"
    /\ run_error = "none"
    /\ completed_analyses = <<1, 2>>
    /\ calls.generate_final_report = 1
    /\ calls.save_notebook = 1

----------------------------------------------------------------------------
(* The tries of call_api                                                   *)

\* the failures the claim names: rate limit, API error (the bad-request error
\* is one), timeout
RetriedFailures == {"RateLimitError", "APIError", "BadRequestError", "TimeoutException"}

====
